---- MODULE Spec2Model ----
(***************************************************************************)
(* Loom: the agent execution core.                                         *)
(*   - AgentOrchestrator (src/agents/orchestrator.py): discovery of the    *)
(*     units of a directory, resolution of the execution order, the run.  *)
(*   - ContextManager (src/core/context_manager.py): the key -> history    *)
(*     store the units share.                                              *)
(*   - ConfigManager (src/core/config_manager.py): the configuration tree, *)
(*     its dotted-path access and the merge of an override file.           *)
(*     AgentConfigManager is the cached per-unit view of it.               *)
(*   - LLMManager._resolve_configuration (src/core/llm_manager.py): the    *)
(*     tiers a setting of an LLM call is resolved through.                 *)
(*   - DevIssueRunner (src/loom.py): the process that loads the           *)
(*     configuration, builds the orchestrator and runs it.                 *)
(* Strings are sequences of tokens, so that "output from a: " + task is    *)
(* <<"a">> \o task.  A Python dict is a sequence of [name, agent] pairs in *)
(* insertion order (the orchestrator's registry) or a function whose       *)
(* DOMAIN is the set of keys present (the context store).                  *)
(***************************************************************************)
EXTENDS Integers, Sequences, FiniteSets, TLC

VARIABLES
    listing,                \* os.listdir(agent_dir): one entry per directory entry
    agent_execution_order,  \* config value 'agent_execution_order' (absent = <<>>)
    pc,                     \* where the orchestrator is in its life
    agents,                 \* self.agents, an insertion-ordered dict
    execution_order,        \* self.execution_order, a list of unit instances
    agent_context,          \* unit instance -> the ContextManager it was built with
    stores,                 \* ContextManager instance -> its _context dict
    initial_task,           \* argument of the current run_sequence call
    current_input,          \* local of run_sequence
    calls,                  \* the execute invocations of the current run
    outcome,                \* what the caller of __init__ / run_sequence got
    log,                    \* what the current run_sequence logged and invoked, in order
    context,                \* ContextManager._context of a store used on its own
    call,                   \* the last call made on that store, with what it returned
    held,                   \* the list the caller got from its last get_history
    config,                 \* ConfigManager._config, a JSON dict
    cfg_call,               \* the last call made on the ConfigManager, with its result
    view,                   \* an AgentConfigManager built on that ConfigManager
    llm,                    \* a call of LLMManager._resolve_configuration on it
    runner                  \* the DevIssueRunner of the process (loom.py)

orchVars == <<listing, agent_execution_order, pc, agents, execution_order,
              agent_context, stores, initial_task, current_input, calls, outcome,
              log>>
ctxVars == <<context, call, held>>
cfgVars == <<config, cfg_call, view, llm, runner>>
vars == <<orchVars, ctxVars, cfgVars>>

----------------------------------------------------------------------------
(* Bounds *)

MaxDirs == 3        \* entries in the units directory
MaxOrderLen == 3    \* names in agent_execution_order
MaxHist == 3        \* values accumulated under one key by add
MaxMerges == 2      \* merges an AgentConfigManager computes while its override fails

BSeq(S, n) == UNION {[1..m -> S] : m \in 0..n}

Last(s) == s[Len(s)]

----------------------------------------------------------------------------
(* ContextManager: the operations as functions of the _context dict *)

None == "None"

ctx_contains(c, key) == key \in DOMAIN c

\* get: lines 28-30
ctx_get_first(c, key, default) ==
    IF key \in DOMAIN c /\ c[key] # <<>> THEN c[key][1] ELSE default

ctx_get(c, key, default) ==
    IF key \in DOMAIN c /\ c[key] # <<>> THEN c[key][Len(c[key])] ELSE default

\* set: line 40
ctx_set_appending(c, key, value) ==
    IF key \in DOMAIN c THEN [c EXCEPT ![key] = Append(@, value)]
    ELSE c @@ (key :> <<value>>)

ctx_set(c, key, value) ==
    IF key \in DOMAIN c THEN [c EXCEPT ![key] = <<value>>]
    ELSE c @@ (key :> <<value>>)

\* add: lines 50-52
ctx_add_replacing(c, key, value) ==
    IF key \in DOMAIN c THEN [c EXCEPT ![key] = <<value>>]
    ELSE c @@ (key :> <<value>>)

ctx_add(c, key, value) ==
    LET c1 == IF key \notin DOMAIN c THEN c @@ (key :> <<>>) ELSE c
    IN  [c1 EXCEPT ![key] = Append(@, value)]

\* get_history: line 64
ctx_get_history(c, key) == IF key \in DOMAIN c THEN c[key] ELSE <<>>

EmptyContext == [k \in {} |-> <<>>]

\* clear: line 78
ctx_clear(c) == EmptyContext

\* len(store) counting the values of all the histories
RECURSIVE ctx_len_values(_)
ctx_len_values(c) ==
    IF DOMAIN c = {} THEN 0
    ELSE LET key == CHOOSE k \in DOMAIN c : TRUE
         IN  Len(c[key]) + ctx_len_values([k \in DOMAIN c \ {key} |-> c[k]])

\* __len__: line 94
ctx_len(c) == Cardinality(DOMAIN c)

\* The list a caller holds after get_history(key).  live says that it is the
\* very list object the store keeps under key (line 64 returns
\* self._context.get(key, []): the stored list itself when the key is
\* present, a new empty list otherwise); value is its content.
NoHeld == [key |-> None, live |-> FALSE, value |-> <<>>]

returned_history(c, key) ==
    [key |-> key, live |-> key \in DOMAIN c, value |-> ctx_get_history(c, key)]

\* the held list after add(key, value): line 52 appends to the stored list in
\* place, so a live list held for that key grows with it
held_after_add(h, c, key, value) ==
    IF h.live /\ h.key = key THEN [h EXCEPT !.value = Append(@, value)] ELSE h

\* the held list after the keys K were set (line 40 binds a new list to the
\* key) or the dict was cleared: the held list is no longer the store's
held_after_rebind(h, K) ==
    IF h.live /\ h.key \in K THEN [h EXCEPT !.live = FALSE] ELSE h

----------------------------------------------------------------------------
(* The units directory and the configuration *)

Names == {"agent_a", "agent_b", "project-analysis-agent"}
OrderNames == Names \cup {"agent_dne"}

\* what a directory entry can be, by the branch of load_agents it takes
SkippedKinds == {"file", "no_manifest"}
FailingKinds == {"bad_manifest", "missing_field", "import_error",
                 "no_class", "not_subclass"}
DirEntries == [kind : {"ok"}, name : Names]
                \cup {[kind |-> "no_manifest", name |-> "agent_a"]}

Tasks == {<<"start">>}

\* the registry as a dict: keys(), values(), get(), d[k] = v
dict_keys(d) == [j \in 1..Len(d) |-> d[j].name]
dict_values(d) == [j \in 1..Len(d) |-> d[j].agent]
dict_has(d, k) == \E j \in 1..Len(d) : d[j].name = k
NoAgent == 0
dict_get(d, k) ==
    IF dict_has(d, k) THEN d[CHOOSE j \in 1..Len(d) : d[j].name = k].agent
    ELSE NoAgent
\* an assignment that leaves a key that is present as it is
dict_set_keep_first(d, k, v) ==
    IF dict_has(d, k) THEN d ELSE Append(d, [name |-> k, agent |-> v])

dict_set(d, k, v) ==
    IF dict_has(d, k)
    THEN [j \in 1..Len(d) |-> IF d[j].name = k THEN [name |-> k, agent |-> v] ELSE d[j]]
    ELSE Append(d, [name |-> k, agent |-> v])
\* list.index: the first position holding the value
list_index(l, v) == CHOOSE j \in 1..Len(l) : l[j] = v /\ \A h \in 1..(j-1) : l[h] # v

----------------------------------------------------------------------------
(* AgentOrchestrator.__init__ *)

OrchestratorContext == 0

\* line 53: the ContextManager handed to the unit's constructor
private_context_manager(inst) == inst

injected_context_manager(inst) == OrchestratorContext

\* load_agents letting the exception of a failing entry end the loop
RECURSIVE load_agents_aborting(_, _, _)
load_agents_aborting(l, j, acc) ==
    IF j > Len(l) THEN acc
    ELSE IF l[j].kind \in SkippedKinds THEN load_agents_aborting(l, j + 1, acc)
    ELSE IF l[j].kind \in FailingKinds THEN acc
    ELSE load_agents_aborting(l, j + 1,
            [agents |-> dict_set(acc.agents, l[j].name, j),
             ctx |-> (j :> injected_context_manager(j)) @@ acc.ctx])

\* load_agents, lines 26-57, from entry j of the listing on.  An entry of a
\* failing kind raises an Exception inside the try of lines 37-57 (json.load,
\* manifest[...], exec_module, getattr) or fails issubclass; both end in a
\* print and the loop goes on.
RECURSIVE load_agents_from(_, _, _)
load_agents_from(l, j, acc) ==
    IF j > Len(l) THEN acc
    ELSE IF l[j].kind \in SkippedKinds THEN load_agents_from(l, j + 1, acc)
    ELSE IF l[j].kind \in FailingKinds THEN load_agents_from(l, j + 1, acc)
    ELSE load_agents_from(l, j + 1,
            [agents |-> dict_set(acc.agents, l[j].name, j),
             ctx |-> (j :> injected_context_manager(j)) @@ acc.ctx])

load_agents(l) == load_agents_from(l, 1, [agents |-> <<>>, ctx |-> <<>>])

\* the loop of lines 67-71 appending the position of the name in the
\* configured order instead of the registry's instance
RECURSIVE resolve_from_positions(_, _, _, _)
resolve_from_positions(d, names, j, acc) ==
    IF j > Len(names) THEN [raised |-> FALSE, order |-> acc]
    ELSE IF dict_get(d, names[j]) = NoAgent THEN [raised |-> TRUE, order |-> acc]
    ELSE resolve_from_positions(d, names, j + 1, Append(acc, j))

\* prepare_execution_sequence, lines 59-71: the names resolved so far, and
\* whether the loop raised
RECURSIVE resolve_from(_, _, _, _)
resolve_from(d, names, j, acc) ==
    IF j > Len(names) THEN [raised |-> FALSE, order |-> acc]
    ELSE IF dict_get(d, names[j]) = NoAgent THEN [raised |-> TRUE, order |-> acc]
    ELSE resolve_from(d, names, j + 1, Append(acc, dict_get(d, names[j])))

prepare_all_loaded(d, names) == [raised |-> FALSE, order |-> dict_values(d)]

RECURSIVE resolve_skipping(_, _, _, _)
resolve_skipping(d, names, j, acc) ==
    IF j > Len(names) THEN [raised |-> FALSE, order |-> acc]
    ELSE IF dict_get(d, names[j]) = NoAgent THEN resolve_skipping(d, names, j + 1, acc)
    ELSE resolve_skipping(d, names, j + 1, Append(acc, dict_get(d, names[j])))

prepare_skipping_unknown(d, names) ==
    IF names = <<>> THEN [raised |-> FALSE, order |-> dict_values(d)]
    ELSE resolve_skipping(d, names, 1, <<>>)

\* prepare_execution_sequence without the fallback of lines 62-65
prepare_configured_only(d, names) == resolve_from(d, names, 1, <<>>)

prepare_execution_sequence(d, names) ==
    IF names = <<>> THEN [raised |-> FALSE, order |-> dict_values(d)]
    ELSE resolve_from(d, names, 1, <<>>)

NoOutcome == [kind |-> "none", value |-> <<>>]

AgentOrchestrator_init ==
    /\ pc = "NotConstructed"
    /\ LET loaded == load_agents(listing)
           seq == prepare_execution_sequence(loaded.agents, agent_execution_order)
       IN  /\ agents' = loaded.agents
           /\ agent_context' = loaded.ctx
           /\ execution_order' = seq.order
           /\ pc' = IF seq.raised THEN "ConstructFailed" ELSE "Constructed"
           /\ outcome' = IF seq.raised
                         THEN [kind |-> "raise", value |-> <<"ValueError">>]
                         ELSE [kind |-> "return", value |-> <<>>]
    /\ UNCHANGED <<listing, agent_execution_order, stores, initial_task,
                   current_input, calls, log, ctxVars, cfgVars>>

----------------------------------------------------------------------------
(* The units: execute is code of the unit, not of the orchestrator.  A unit  *)
(* either wraps its task ("output from <name>: <task>"), raises, records its *)
(* task in its context store and returns it, or returns what it reads there, *)
(* uppercased.                                                               *)

UnitBehaviours == {"wrap", "raise", "record", "read"}

UpperToken(t) ==
    CASE t = "start" -> "START"
      [] t = "hello" -> "HELLO"
      [] OTHER -> t
Upper(s) == [j \in 1..Len(s) |-> UpperToken(s[j])]

unit_execute(behaviour, name, task, c) ==
    CASE behaviour = "wrap" ->
            [raised |-> FALSE, value |-> <<name>> \o task, ctx |-> c]
      [] behaviour = "raise" ->
            [raised |-> TRUE, value |-> <<"Test error">>, ctx |-> c]
      [] behaviour = "record" ->
            [raised |-> FALSE, value |-> task, ctx |-> ctx_set(c, "seen", task)]
      [] behaviour = "read" ->
            [raised |-> FALSE, value |-> Upper(ctx_get(c, "seen", <<>>)), ctx |-> c]

----------------------------------------------------------------------------
(* AgentOrchestrator.run_sequence *)

\* lines 102 and 107: the argument of agent.execute
execute_current_input(task, current) == current

execute_argument(task, current) == task

\* lines 100-108: current_input after the unit returned output
always_chain_output(agent_name, current, output) == output

next_current_input(agent_name, current, output) ==
    IF agent_name = "project-analysis-agent" THEN current ELSE output

\* lines 116-119: the except clause logs and re-raises
except_swallow(e) == [reraise |-> FALSE, error |-> e]

except_clause(e) == [reraise |-> TRUE, error |-> e]

\* One entry of log: a call of self.logger.<level> with the message of kind
\* msg, or, at level "call", the invocation of agent.execute (lines 102, 107)
LogEntry(level, msg, i, n, name) ==
    [level |-> level, msg |-> msg, i |-> i, n |-> n, name |-> name]

\* lines 83-84
start_log(n) ==
    <<LogEntry("info", "starting", 0, n, ""), LogEntry("debug", "initial task", 0, n, "")>>

\* line 121
sequence_completed_log == <<LogEntry("info", "sequence completed", 0, 0, "")>>

\* an iteration whose except clause logs nothing
iteration_log_silent_failure(i, n, agent_name, raised) ==
    <<LogEntry("info", "executing", i, n, agent_name),
      LogEntry("debug", "input", i, n, agent_name),
      LogEntry("call", "execute", i, n, agent_name)>>
    \o IF raised THEN <<>>
       ELSE <<LogEntry("info", "completed", i, n, agent_name),
              LogEntry("debug", "output", i, n, agent_name)>>

\* lines 90-118: what one iteration logs, around the invocation of execute
iteration_log(i, n, agent_name, raised) ==
    <<LogEntry("info", "executing", i, n, agent_name),
      LogEntry("debug", "input", i, n, agent_name),
      LogEntry("call", "execute", i, n, agent_name)>>
    \o IF raised
       THEN <<LogEntry("error", "failed", i, n, agent_name)>>
       ELSE <<LogEntry("info", "completed", i, n, agent_name),
              LogEntry("debug", "output", i, n, agent_name)>>

\* lines 83-86, and lines 121-122 when there is nothing to iterate over
AgentOrchestrator_run_sequence(task) ==
    /\ pc \in {"Constructed", "Completed", "Aborted"}
    /\ initial_task' = task
    /\ current_input' = task
    /\ calls' = <<>>
    /\ IF execution_order = <<>>
       THEN /\ pc' = "Completed"
            /\ outcome' = [kind |-> "return", value |-> task]
            /\ log' = start_log(0) \o sequence_completed_log
       ELSE /\ pc' = "Running"
            /\ outcome' = NoOutcome
            /\ log' = start_log(Len(execution_order))
    /\ UNCHANGED <<listing, agent_execution_order, agents, execution_order,
                   agent_context, stores, ctxVars, cfgVars>>

\* one iteration of the loop of lines 87-119, and lines 121-122 after the last
run_sequence_iteration(behaviour) ==
    /\ pc = "Running"
    /\ LET i == Len(calls) + 1
           agent == execution_order[i]
       IN  IF \A j \in 1..Len(agents) : agents[j].agent # agent
           THEN \* line 88: list.index raises ValueError, outside the try
                /\ pc' = "Aborted"
                /\ outcome' = [kind |-> "raise", value |-> <<"ValueError">>]
                /\ UNCHANGED <<stores, current_input, calls, log>>
           ELSE LET agent_name == dict_keys(agents)[list_index(dict_values(agents), agent)]
                    arg == execute_argument(initial_task, current_input)
                    r == unit_execute(behaviour, listing[agent].name, arg,
                                      stores[agent_context[agent]])
                    h == except_clause(r.value)
                    aborts == r.raised /\ h.reraise
                    current == IF r.raised THEN current_input
                               ELSE next_current_input(agent_name, current_input, r.value)
               IN  /\ calls' = Append(calls, [agent |-> agent, name |-> agent_name,
                                              task |-> arg, kind |-> behaviour,
                                              raised |-> r.raised, ret |-> r.value])
                   /\ stores' = [stores EXCEPT ![agent_context[agent]] = r.ctx]
                   /\ current_input' = current
                   /\ log' = log \o iteration_log(i, Len(execution_order), agent_name,
                                                  r.raised)
                                 \o IF ~aborts /\ i = Len(execution_order)
                                    THEN sequence_completed_log ELSE <<>>
                   /\ pc' = IF aborts THEN "Aborted"
                            ELSE IF i = Len(execution_order) THEN "Completed"
                            ELSE "Running"
                   /\ outcome' = IF aborts THEN [kind |-> "raise", value |-> h.error]
                                 ELSE IF i = Len(execution_order)
                                 THEN [kind |-> "return", value |-> current]
                                 ELSE NoOutcome
    /\ UNCHANGED <<listing, agent_execution_order, agents, execution_order,
                   agent_context, initial_task, ctxVars, cfgVars>>

----------------------------------------------------------------------------
(* ContextManager: one action per method, on a store used on its own.  call  *)
(* records the method, its arguments, the length of the key's history before *)
(* the call (had) and the value returned.                                    *)

Keys == {"key1", "key2"}
Values == {"value1", "value2"}
Defaults == {None, "default"}
Mappings == UNION {[K -> Values] : K \in SUBSET Keys}

NoCall == [op |-> "none", key |-> None, value |-> None, had |-> 0, ret |-> None]

\* update: lines 73-74, set for every item of data
RECURSIVE ctx_update_adding(_, _)
ctx_update_adding(c, data) ==
    IF DOMAIN data = {} THEN c
    ELSE LET key == CHOOSE k \in DOMAIN data : TRUE
             rest == [k \in DOMAIN data \ {key} |-> data[k]]
         IN  ctx_update_adding(ctx_add(c, key, data[key]), rest)

RECURSIVE ctx_update(_, _)
ctx_update(c, data) ==
    IF DOMAIN data = {} THEN c
    ELSE LET key == CHOOSE k \in DOMAIN data : TRUE
             rest == [k \in DOMAIN data \ {key} |-> data[k]]
         IN  ctx_update(ctx_set(c, key, data[key]), rest)

\* items: line 86
ctx_items(c) == [k \in DOMAIN c |-> IF c[k] # <<>> THEN c[k][Len(c[k])] ELSE None]

\* the length of the longest history among the keys K
LongestHistory(c, K) ==
    IF K = {} THEN 0
    ELSE LET lens == {Len(ctx_get_history(c, k)) : k \in K}
         IN  CHOOSE n \in lens : \A m \in lens : m <= n

ContextManager_get(key, default) ==
    /\ call' = [op |-> "get", key |-> key, value |-> default,
                had |-> Len(ctx_get_history(context, key)),
                ret |-> ctx_get(context, key, default)]
    /\ UNCHANGED <<context, held, orchVars, cfgVars>>

ContextManager_set(key, value) ==
    /\ context' = ctx_set(context, key, value)
    /\ call' = [op |-> "set", key |-> key, value |-> value,
                had |-> Len(ctx_get_history(context, key)), ret |-> None]
    /\ held' = held_after_rebind(held, {key})
    /\ UNCHANGED <<orchVars, cfgVars>>

ContextManager_add(key, value) ==
    /\ Len(ctx_get_history(context, key)) < MaxHist
    /\ context' = ctx_add(context, key, value)
    /\ call' = [op |-> "add", key |-> key, value |-> value,
                had |-> Len(ctx_get_history(context, key)), ret |-> None]
    /\ held' = held_after_add(held, context, key, value)
    /\ UNCHANGED <<orchVars, cfgVars>>

\* keep: whether the caller holds on to the list it is handed
ContextManager_get_history(key, keep) ==
    /\ call' = [op |-> "get_history", key |-> key, value |-> None,
                had |-> Len(ctx_get_history(context, key)),
                ret |-> ctx_get_history(context, key)]
    /\ held' = IF keep THEN returned_history(context, key) ELSE held
    /\ UNCHANGED <<context, orchVars, cfgVars>>

ContextManager_update(data) ==
    /\ context' = ctx_update(context, data)
    /\ call' = [op |-> "update", key |-> None, value |-> data,
                had |-> LongestHistory(context, DOMAIN data), ret |-> None]
    /\ held' = held_after_rebind(held, DOMAIN data)
    /\ UNCHANGED <<orchVars, cfgVars>>

ContextManager_clear ==
    /\ context' = ctx_clear(context)
    /\ call' = [op |-> "clear", key |-> None, value |-> None, had |-> 0, ret |-> None]
    /\ held' = held_after_rebind(held, DOMAIN context)
    /\ UNCHANGED <<orchVars, cfgVars>>

ContextManager_keys ==
    /\ call' = [op |-> "keys", key |-> None, value |-> None, had |-> 0,
                ret |-> DOMAIN context]
    /\ UNCHANGED <<context, held, orchVars, cfgVars>>

ContextManager_items ==
    /\ call' = [op |-> "items", key |-> None, value |-> None, had |-> 0,
                ret |-> ctx_items(context)]
    /\ UNCHANGED <<context, held, orchVars, cfgVars>>

ContextManager_contains(key) ==
    /\ call' = [op |-> "contains", key |-> key, value |-> None, had |-> 0,
                ret |-> ctx_contains(context, key)]
    /\ UNCHANGED <<context, held, orchVars, cfgVars>>

ContextManager_len ==
    /\ call' = [op |-> "len", key |-> None, value |-> None, had |-> 0,
                ret |-> ctx_len(context)]
    /\ UNCHANGED <<context, held, orchVars, cfgVars>>

\* the caller appends to the list it holds: the store's history changes with
\* it when the list is the store's own
caller_append(value) ==
    /\ held.key # None
    /\ Len(held.value) < MaxHist
    /\ held' = [held EXCEPT !.value = Append(@, value)]
    /\ context' = IF held.live THEN [context EXCEPT ![held.key] = Append(@, value)]
                  ELSE context
    /\ call' = [op |-> "caller_append", key |-> held.key, value |-> value,
                had |-> Len(held.value), ret |-> None]
    /\ UNCHANGED <<orchVars, cfgVars>>

\* the caller empties the list it holds
caller_clear ==
    /\ held.key # None
    /\ held' = [held EXCEPT !.value = <<>>]
    /\ context' = IF held.live THEN [context EXCEPT ![held.key] = <<>>] ELSE context
    /\ call' = [op |-> "caller_clear", key |-> held.key, value |-> None,
                had |-> Len(held.value), ret |-> None]
    /\ UNCHANGED <<orchVars, cfgVars>>

----------------------------------------------------------------------------
(* ConfigManager (src/core/config_manager.py).  A JSON value is a record     *)
(* whose field t says what it is ("dict", "list", "str", "num", "none") and  *)
(* whose other field holds it: a dict's v is a function from keys to JSON    *)
(* values, a list's l a sequence, a string's s and a number's n a token.  A  *)
(* dotted path is a string cut into tokens, each token "." or a run of other *)
(* characters.                                                               *)

Dict(f) == [t |-> "dict", v |-> f]
Str(x) == [t |-> "str", s |-> x]
Num(x) == [t |-> "num", n |-> x]
List(x) == [t |-> "list", l |-> x]
NoneValue == [t |-> "none"]
EmptyDict == Dict(<<>>)
IsDict(x) == x.t = "dict"

\* d[k] = x on the function under a dict
put(f, k, x) == [h \in DOMAIN f \cup {k} |-> IF h = k THEN x ELSE f[h]]

\* str.split('.'): the segments between the dots, "" for an empty one
RECURSIVE split(_)
split(path) ==
    LET dots == {j \in 1..Len(path) : path[j] = "."}
        seg(part) == IF part = <<>> THEN "" ELSE part[1]
    IN  IF dots = {} THEN <<seg(path)>>
        ELSE LET j == CHOOSE d \in dots : \A e \in dots : d <= e
             IN  <<seg(SubSeq(path, 1, j - 1))>> \o split(SubSeq(path, j + 1, Len(path)))

\* _get_from_dict, lines 168-175, from the value reached so far
RECURSIVE get_walk_none(_, _, _)
get_walk_none(value, keys, default) ==
    IF keys = <<>> THEN value
    ELSE IF IsDict(value) /\ keys[1] \in DOMAIN value.v
         THEN get_walk_none(value.v[keys[1]], Tail(keys), default)
         ELSE NoneValue

RECURSIVE get_walk(_, _, _)
get_walk(value, keys, default) ==
    IF keys = <<>> THEN value
    ELSE IF IsDict(value) /\ keys[1] \in DOMAIN value.v
         THEN get_walk(value.v[keys[1]], Tail(keys), default)
         ELSE default

get_from_dict(config_dict, key, default) == get_walk(config_dict, split(key), default)

\* set, lines 189-193, from the object d reached so far: setdefault on every
\* key but the last, item assignment on the last; both raise on an object
\* that is not a dict
RECURSIVE set_walk(_, _, _)
set_walk(d, keys, value) ==
    IF ~IsDict(d)
    THEN [ok |-> FALSE, tree |-> d,
          err |-> IF Len(keys) = 1 THEN "TypeError" ELSE "AttributeError"]
    ELSE IF Len(keys) = 1
    THEN [ok |-> TRUE, tree |-> Dict(put(d.v, keys[1], value)), err |-> ""]
    ELSE LET child == IF keys[1] \in DOMAIN d.v THEN d.v[keys[1]] ELSE EmptyDict
             r == set_walk(child, Tail(keys), value)
         IN  [ok |-> r.ok, tree |-> Dict(put(d.v, keys[1], r.tree)), err |-> r.err]

\* _deep_merge, lines 156-162: the merged tree
shallow_merge(base, override) ==
    Dict([k \in DOMAIN base.v \cup DOMAIN override.v |->
            IF k \in DOMAIN override.v THEN override.v[k] ELSE base.v[k]])

RECURSIVE deep_merge(_, _)
deep_merge(base, override) ==
    Dict([k \in DOMAIN base.v \cup DOMAIN override.v |->
            IF k \notin DOMAIN override.v THEN base.v[k]
            ELSE IF IsDict(override.v[k]) /\ k \in DOMAIN base.v /\ IsDict(base.v[k])
                 THEN deep_merge(base.v[k], override.v[k])
                 ELSE override.v[k]])

\* Python objects: a tree handed around is the store's own object or a fresh one
StoreObject == "store"
FreshObject == "fresh"

\* get_config returning self._config itself
snapshot_alias(obj) == obj

\* line 117: get_config returns copy.deepcopy(self._config)
snapshot(obj) == FreshObject

\* line 156: merged = copy.deepcopy(base)
merge_copy(obj) == FreshObject

\* the configuration schema (core/config_schema.json): llm_settings is an
\* object whose default_provider is a string, one of the providers
Providers == {"gemini", "openai", "claude"}

schema_valid(tree) ==
    /\ IsDict(tree)
    /\ "llm_settings" \in DOMAIN tree.v =>
          LET ls == tree.v["llm_settings"]
          IN  /\ IsDict(ls)
              /\ "default_provider" \in DOMAIN ls.v =>
                    IF ls.v["default_provider"].t = "str"
                    THEN ls.v["default_provider"].s \in Providers
                    ELSE FALSE

\* the dicts whose keys are some of DOMAIN choices, key k holding one of choices[k]
DictsOver(choices) ==
    UNION {{Dict(f) : f \in {g \in [K -> UNION {choices[k] : k \in K}] :
                                \A k \in K : g[k] \in choices[k]}} :
           K \in SUBSET DOMAIN choices}

Leaves == {Str("gemini"), Num("123"), List(<<"bug", "feature">>), List(<<"custom">>)}
InnerDicts == DictsOver([depth |-> {Str("gemini"), List(<<"custom">>)}])
MidDicts == DictsOver([default_provider |-> {Str("gemini"), Num("123")},
                       options |-> InnerDicts \cup {Str("gemini")}])
TopDicts == DictsOver([llm_settings |-> MidDicts \cup {Str("gemini"), List(<<"bug", "feature">>)},
                       templates |-> {List(<<"bug", "feature">>), List(<<"custom">>),
                                      Str("gemini")}])

\* a file: absent, not JSON, or a JSON document
AbsentFile == [kind |-> "absent", doc |-> NoneValue]
MalformedFile == [kind |-> "malformed", doc |-> NoneValue]
JsonFile(doc) == [kind |-> "json", doc |-> doc]

BaseDocs ==
    {EmptyDict,
     Dict([llm_settings |-> Dict([default_provider |-> Str("gemini")])]),
     Dict([llm_settings |-> Dict([default_provider |-> Str("gemini"),
                                  options |-> Dict([depth |-> Str("gemini")])]),
           templates |-> List(<<"bug", "feature">>)]),
     Dict([llm_settings |-> Dict([default_provider |-> Num("123")])]),
     Dict([llm_settings |-> Str("gemini")])}
OverrideDocs ==
    {EmptyDict,
     Dict([llm_settings |-> Dict([default_provider |-> Num("123")])]),
     Dict([llm_settings |-> Dict([options |-> Dict([depth |-> List(<<"custom">>)])]),
           templates |-> List(<<"custom">>)]),
     Dict([templates |-> Str("gemini")])}
BaseFiles == {AbsentFile, MalformedFile} \cup {JsonFile(d) : d \in BaseDocs}
OverrideFiles == {AbsentFile, MalformedFile} \cup {JsonFile(d) : d \in OverrideDocs}

Paths ==
    {<<"templates">>,
     <<"llm_settings", ".", "default_provider">>,
     <<"llm_settings", ".", "options", ".", "depth">>,
     <<"templates", ".", "directories">>,
     <<"no", ".", "such", ".", "path">>,
     <<"llm_settings", ".">>,
     <<>>}
SetPaths ==
    {<<"templates">>,
     <<"llm_settings", ".", "default_provider">>,
     <<"llm_settings", ".", "options", ".", "depth">>,
     <<"templates", ".", "directories">>}
SetValues == {Str("openai"), Dict([depth |-> Num("123")])}
ConfigDefaults == {NoneValue, Str("default")}

----------------------------------------------------------------------------
(* ConfigManager: one action per method.  cfg_call records the method, its   *)
(* arguments, the store's tree before the call (base), the value returned   *)
(* (ret), the object that value is (obj) and the exception raised (err, ""  *)
(* when the call returned).                                                 *)

BaseObject == "base"    \* the dict a caller passes to _deep_merge as base

NoCfgCall == [op |-> "none", path |-> <<>>, arg |-> NoneValue, file |-> "none",
              base |-> NoneValue, base_after |-> NoneValue, ret |-> NoneValue,
              obj |-> "none", err |-> ""]

\* load_config when the file is absent keeps the tree loaded earlier
load_keeping_on_absent(cfg, file) ==
    CASE file.kind = "absent" -> [config |-> cfg, err |-> ""]
      [] file.kind = "malformed" -> [config |-> cfg, err |-> "ValueError"]
      [] OTHER -> IF schema_valid(file.doc)
                  THEN [config |-> file.doc, err |-> ""]
                  ELSE [config |-> cfg, err |-> "ConfigValidationError"]

\* load_config assigning the document before it is validated
load_assign_before_validate(cfg, file) ==
    CASE file.kind = "absent" -> [config |-> EmptyDict, err |-> ""]
      [] file.kind = "malformed" -> [config |-> cfg, err |-> "ValueError"]
      [] OTHER -> [config |-> file.doc,
                   err |-> IF schema_valid(file.doc) THEN ""
                           ELSE "ConfigValidationError"]

\* load_config, lines 42-55: the tree of the store after the call, and the
\* exception that leaves the method
load_config(cfg, file) ==
    CASE file.kind = "absent" -> [config |-> EmptyDict, err |-> ""]
      [] file.kind = "malformed" -> [config |-> cfg, err |-> "ValueError"]
      [] OTHER -> IF schema_valid(file.doc)
                  THEN [config |-> file.doc, err |-> ""]
                  ELSE [config |-> cfg, err |-> "ConfigValidationError"]

\* get_merged_config, lines 125-138: base_config is a snapshot of the store;
\* the merged tree is returned as it is, the validation of lines 136-137
\* being commented out
get_merged_config(cfg, file) ==
    CASE file.kind = "absent" ->
           [ret |-> cfg, obj |-> snapshot(StoreObject), err |-> ""]
      [] file.kind = "malformed" ->
           [ret |-> NoneValue, obj |-> "none", err |-> "ValueError"]
      [] OTHER ->
           [ret |-> deep_merge(cfg, file.doc),
            obj |-> merge_copy(snapshot(StoreObject)), err |-> ""]

AgentNames == {"agent_a", "agent_b"}

ConfigManager_load_config(file) ==
    /\ LET r == load_config(config, file)
       IN  /\ config' = r.config
           /\ cfg_call' = [NoCfgCall EXCEPT !.op = "load_config", !.file = file.kind,
                                            !.arg = file.doc, !.base = config,
                                            !.err = r.err]
    /\ UNCHANGED <<view, llm, runner, orchVars, ctxVars>>

ConfigManager_get(key, default) ==
    /\ cfg_call' = [NoCfgCall EXCEPT !.op = "get", !.path = key, !.arg = default,
                                     !.base = config,
                                     !.ret = get_from_dict(config, key, default)]
    /\ UNCHANGED <<config, view, llm, runner, orchVars, ctxVars>>

ConfigManager_set(key, value) ==
    /\ LET r == set_walk(config, split(key), value)
       IN  /\ config' = r.tree
           /\ cfg_call' = [NoCfgCall EXCEPT !.op = "set", !.path = key, !.arg = value,
                                            !.base = config, !.err = r.err]
    /\ UNCHANGED <<view, llm, runner, orchVars, ctxVars>>

ConfigManager_get_config ==
    /\ cfg_call' = [NoCfgCall EXCEPT !.op = "get_config", !.base = config,
                                     !.ret = config, !.obj = snapshot(StoreObject)]
    /\ UNCHANGED <<config, view, llm, runner, orchVars, ctxVars>>

ConfigManager_get_merged_config(file) ==
    /\ LET r == get_merged_config(config, file)
       IN  cfg_call' = [NoCfgCall EXCEPT !.op = "get_merged_config",
                                         !.file = file.kind, !.arg = file.doc,
                                         !.base = config, !.ret = r.ret,
                                         !.obj = r.obj, !.err = r.err]
    /\ UNCHANGED <<config, view, llm, runner, orchVars, ctxVars>>

\* lines 146-148: the override file is <agents.directory>/<agent_name>/config.json
ConfigManager_get_agent_config(agent_name, file) ==
    /\ LET agents_directory == get_from_dict(config, <<"agents", ".", "directory">>,
                                             Str("agents"))
           r == get_merged_config(config, file)
       IN  cfg_call' = [NoCfgCall EXCEPT !.op = "get_agent_config",
                                         !.path = <<agents_directory.s, "/", agent_name,
                                                    "/", "config.json">>,
                                         !.file = file.kind, !.arg = file.doc,
                                         !.base = config, !.ret = r.ret,
                                         !.obj = r.obj, !.err = r.err]
    /\ UNCHANGED <<config, view, llm, runner, orchVars, ctxVars>>

\* the static method called on two trees of the caller
ConfigManager_deep_merge(base, override) ==
    /\ LET merged == deep_merge(base, override)
           obj == merge_copy(BaseObject)
       IN  cfg_call' = [NoCfgCall EXCEPT !.op = "deep_merge", !.arg = override,
                                         !.base = base, !.ret = merged, !.obj = obj,
                                         !.base_after = IF obj = BaseObject
                                                        THEN merged ELSE base]
    /\ UNCHANGED <<config, view, llm, runner, orchVars, ctxVars>>

\* the caller assigns into the tree a call returned; the store's tree changes
\* with it when the returned tree is the store's own object
mutate_returned(key, value) ==
    /\ cfg_call.op \in {"get_config", "get_merged_config", "get_agent_config"}
    /\ cfg_call.err = ""
    /\ LET r == set_walk(cfg_call.ret, split(key), value)
       IN  /\ r.ok
           /\ cfg_call' = [cfg_call EXCEPT !.op = "mutate_returned", !.path = key,
                                           !.arg = value, !.ret = r.tree]
           /\ config' = IF cfg_call.obj = StoreObject THEN r.tree ELSE config
    /\ UNCHANGED <<view, llm, runner, orchVars, ctxVars>>

\* get_agent_execution_order reading the key the spec names
get_execution_order_key(cfg) == get_from_dict(cfg, <<"execution_order">>, List(<<>>))

\* lines 177-182: self.get('agent_execution_order', [])
get_agent_execution_order(cfg) ==
    get_from_dict(cfg, <<"agent_execution_order">>, List(<<>>))

ConfigManager_get_agent_execution_order ==
    /\ cfg_call' = [NoCfgCall EXCEPT !.op = "get_agent_execution_order",
                                     !.base = config,
                                     !.ret = get_agent_execution_order(config)]
    /\ UNCHANGED <<config, view, llm, runner, orchVars, ctxVars>>

----------------------------------------------------------------------------
(* AgentConfigManager (config_manager.py:195-228): made says that the view   *)
(* was constructed, cache is its _agent_config (None until computed) and    *)
(* computed counts its calls of ConfigManager.get_agent_config.              *)

NoView == [made |-> FALSE, cache |-> NoneValue, computed |-> 0]

\* _get_agent_config asking the ConfigManager on every access
agent_config_recomputing(v, cfg, file) ==
    LET r == get_merged_config(cfg, file)
    IN  [cache |-> IF r.err = "" THEN r.ret ELSE v.cache,
         computed |-> v.computed + 1, err |-> r.err]

\* _get_agent_config, lines 204-208: the merged tree, computed when
\* _agent_config is None and kept when the computation returned
lazy_agent_config(v, cfg, file) ==
    IF v.cache # NoneValue
    THEN [cache |-> v.cache, computed |-> v.computed, err |-> ""]
    ELSE LET r == get_merged_config(cfg, file)
         IN  [cache |-> IF r.err = "" THEN r.ret ELSE NoneValue,
              computed |-> v.computed + 1, err |-> r.err]

AgentConfigManager_init(agent_name) ==
    /\ ~view.made
    /\ view' = [made |-> TRUE, cache |-> NoneValue, computed |-> 0]
    /\ cfg_call' = [NoCfgCall EXCEPT !.op = "view_init", !.path = <<agent_name>>,
                                     !.base = config]
    /\ UNCHANGED <<config, llm, runner, orchVars, ctxVars>>

\* file: what is at the unit's config.json when the view asks for the merge
AgentConfigManager_get(key, default, file) ==
    /\ view.made
    /\ view.cache # NoneValue \/ view.computed < MaxMerges
    /\ LET r == lazy_agent_config(view, config, file)
       IN  /\ view' = [view EXCEPT !.cache = r.cache, !.computed = r.computed]
           /\ cfg_call' = [NoCfgCall EXCEPT
                             !.op = "view_get", !.path = key, !.arg = default,
                             !.base = config, !.err = r.err,
                             !.file = IF view.cache = NoneValue THEN file.kind ELSE "none",
                             !.ret = IF r.err = ""
                                     THEN get_from_dict(r.cache, key, default)
                                     ELSE NoneValue]
    /\ UNCHANGED <<config, llm, runner, orchVars, ctxVars>>

AgentConfigManager_get_config(file) ==
    /\ view.made
    /\ view.cache # NoneValue \/ view.computed < MaxMerges
    /\ LET r == lazy_agent_config(view, config, file)
       IN  /\ view' = [view EXCEPT !.cache = r.cache, !.computed = r.computed]
           /\ cfg_call' = [NoCfgCall EXCEPT
                             !.op = "view_get_config", !.base = config, !.err = r.err,
                             !.file = IF view.cache = NoneValue THEN file.kind ELSE "none",
                             !.ret = IF r.err = "" THEN r.cache ELSE NoneValue,
                             !.obj = IF r.err = "" THEN FreshObject ELSE "none"]
    /\ UNCHANGED <<config, llm, runner, orchVars, ctxVars>>

\* lines 224-228: set delegates to the base ConfigManager
AgentConfigManager_set(key, value) ==
    /\ view.made
    /\ LET r == set_walk(config, split(key), value)
       IN  /\ config' = r.tree
           /\ cfg_call' = [NoCfgCall EXCEPT !.op = "view_set", !.path = key,
                                            !.arg = value, !.base = config,
                                            !.err = r.err]
    /\ UNCHANGED <<view, llm, runner, orchVars, ctxVars>>

----------------------------------------------------------------------------
(* LLMManager._resolve_configuration (llm_manager.py:184-233).  The resolved *)
(* configuration is a Python dict: a function from keys to JSON values.      *)

LLMSettings == {"provider", "model", "temperature", "max_tokens"}
GlobalSettings == LLMSettings \cup {"top_p", "top_k"}

\* lines 195-200
hardcoded_defaults ==
    [provider |-> Str("gemini"), model |-> Str("gemini-2.0-flash-exp"),
     temperature |-> Num("0.7"), max_tokens |-> Num("8192")]

\* the key of llm_settings read for a setting, lines 204-209
global_key(k) == IF k = "provider" THEN "default_provider" ELSE k

\* lines 203-210: config_manager.get("llm_settings.<key>"), None when missing
global_llm_config(cfg) ==
    [k \in GlobalSettings |->
        get_from_dict(cfg, <<"llm_settings", ".", global_key(k)>>, NoneValue)]

\* dict.update
llm_update(c, d) ==
    [k \in DOMAIN c \cup DOMAIN d |-> IF k \in DOMAIN d THEN d[k] ELSE c[k]]

\* the global settings written over the defaults whatever they hold
update_with_none(c, d) ==
    [k \in DOMAIN c \cup DOMAIN d |-> IF k \in DOMAIN d THEN d[k] ELSE c[k]]

\* lines 211-214: only the values that are not None
update_non_none(c, d) ==
    LET supplied == {k \in DOMAIN d : d[k] # NoneValue}
    IN  [k \in DOMAIN c \cup supplied |-> IF k \in supplied THEN d[k] ELSE c[k]]

\* lines 216-224: the unit's merged configuration, its llm section written
\* over the configuration; any exception (the override does not load, the
\* section is no dict) leaves the configuration as it was
apply_agent_config(c, cfg, agent_name, file) ==
    IF agent_name = None THEN c
    ELSE LET r == get_merged_config(cfg, file)
         IN  IF r.err # "" THEN c
             ELSE LET agent_llm_config ==
                          IF "llm" \in DOMAIN r.ret.v THEN r.ret.v["llm"] ELSE EmptyDict
                  IN  IF IsDict(agent_llm_config)
                      THEN llm_update(c, agent_llm_config.v)
                      ELSE c

\* lines 226-232: provider and temperature when not None, then the keyword
\* arguments
apply_explicit(c, provider, temperature, kwargs) ==
    LET c1 == IF provider # NoneValue THEN put(c, "provider", provider) ELSE c
        c2 == IF temperature # NoneValue THEN put(c1, "temperature", temperature) ELSE c1
    IN  llm_update(c2, kwargs)

resolve_configuration(cfg, agent_name, file, provider, temperature, kwargs) ==
    apply_explicit(
        apply_agent_config(update_non_none(hardcoded_defaults, global_llm_config(cfg)),
                           cfg, agent_name, file),
        provider, temperature, kwargs)

NoLLMCall == [op |-> "idle", agent_name |-> None, file |-> AbsentFile,
              provider |-> NoneValue, temperature |-> NoneValue,
              kwargs |-> <<>>, resolved |-> <<>>]

LLMManager_resolve_configuration ==
    /\ llm.op = "pending"
    /\ llm' = [llm EXCEPT
                 !.op = "resolved",
                 !.resolved = resolve_configuration(config, llm.agent_name, llm.file,
                                                    llm.provider, llm.temperature,
                                                    llm.kwargs)]
    /\ UNCHANGED <<config, cfg_call, view, runner, orchVars, ctxVars>>

----------------------------------------------------------------------------
(* DevIssueRunner (loom.py:48-88): pc is the process's position, load_err    *)
(* the exception load_config raised in __init__, "" when it returned.       *)

NoRunner == [pc |-> "NotStarted", load_err |-> ""]

\* loom.py:58: except (FileNotFoundError, ValueError)
runner_catches(err) == err \in {"FileNotFoundError", "ValueError"}

\* __init__, lines 49-69, on the file at dev-automation.config.json.  What
\* line 58 catches is printed and construction goes on (sys.exit(1) of line
\* 63 is commented out); any other exception ends the process.  The store
\* as it is left is what the orchestrator will read its order from.
DevIssueRunner_init(file) ==
    /\ runner.pc = "NotStarted"
    /\ LET r == load_config(config, file)
           s == set_walk(r.config, split(<<"project", ".", "root">>), Str("cwd"))
           after == IF r.err = "" THEN s.tree ELSE r.config
           order == get_agent_execution_order(after)
       IN  /\ config' = after
           /\ runner' = [pc |-> IF r.err = "" \/ runner_catches(r.err)
                                THEN "Initialized" ELSE "Crashed",
                         load_err |-> r.err]
           /\ cfg_call' = [NoCfgCall EXCEPT !.op = "load_config", !.file = file.kind,
                                            !.arg = file.doc, !.base = config,
                                            !.err = r.err]
           /\ agent_execution_order' = order.l
    /\ UNCHANGED <<view, llm, listing, pc, agents, execution_order, agent_context,
                   stores, initial_task, current_input, calls, outcome, log, ctxVars>>

\* _ensure_orchestrator, lines 71-74, called by run (line 81)
DevIssueRunner_ensure_orchestrator ==
    /\ runner.pc = "Initialized"
    /\ pc = "NotConstructed"
    /\ AgentOrchestrator_init

\* run, line 84
DevIssueRunner_run(feature_description) ==
    /\ runner.pc = "Initialized"
    /\ pc = "Constructed"
    /\ AgentOrchestrator_run_sequence(feature_description)

InitConfigIdle ==
    /\ config = EmptyDict
    /\ cfg_call = NoCfgCall
    /\ view = NoView
    /\ llm = NoLLMCall
    /\ runner = NoRunner

----------------------------------------------------------------------------
(* The orchestrator: a units directory and a configuration, then            *)
(* construction, then runs                                                  *)

InitContextIdle ==
    /\ context = EmptyContext
    /\ call = NoCall
    /\ held = NoHeld

Init ==
    /\ listing \in BSeq(DirEntries, MaxDirs)
    /\ agent_execution_order \in BSeq(OrderNames, MaxOrderLen)
    /\ pc = "NotConstructed"
    /\ agents = <<>>
    /\ execution_order = <<>>
    /\ agent_context = <<>>
    /\ stores = [s \in 0..MaxDirs |-> EmptyContext]
    /\ initial_task = <<>>
    /\ current_input = <<>>
    /\ calls = <<>>
    /\ outcome = NoOutcome
    /\ log = <<>>
    /\ InitContextIdle
    /\ InitConfigIdle

Next ==
    \/ AgentOrchestrator_init
    \/ \E task \in Tasks : AgentOrchestrator_run_sequence(task)
    \/ \E behaviour \in UnitBehaviours : run_sequence_iteration(behaviour)

Spec == Init /\ [][Next]_vars

----------------------------------------------------------------------------
(* Orchestrator claims, checked under Spec *)

Max(S) == CHOOSE x \in S : \A y \in S : y <= x

\* the names the units directory makes loadable, read off the directory itself
LoadableNames == {listing[j].name : j \in {h \in 1..Len(listing) : listing[h].kind = "ok"}}

\* the name a unit instance declares in its manifest
ManifestName(inst) == listing[inst].name

\* C1: a unit whose execute raised is the last unit invoked in its run (it
\* sits at its position of the resolved order, nothing after it runs, it is
\* not invoked again), the run is aborted, and the caller of run_sequence
\* gets that same error.
C1_RunAbortOnFailure ==
    \A j \in 1..Len(calls) :
        calls[j].raised =>
            /\ j = Len(calls)
            /\ calls[j].agent = execution_order[j]
            /\ pc = "Aborted"
            /\ outcome = [kind |-> "raise", value |-> calls[j].ret]

\* the second of three units raised
C1_Witness ==
    /\ pc = "Aborted"
    /\ Len(execution_order) = 3
    /\ Len(calls) = 2
    /\ calls[2].raised
    /\ outcome.kind = "raise"

\* C2: with a non-empty configured order, the units invoked so far are the
\* units named by the order, entry by entry and in that order, and a run in
\* which no unit raised has invoked exactly one unit per entry.
C2_ExecutionOrderFidelity ==
    (agent_execution_order # <<>> /\ pc \in {"Running", "Completed", "Aborted"}) =>
        /\ Len(calls) <= Len(agent_execution_order)
        /\ \A j \in 1..Len(calls) :
              /\ listing[calls[j].agent].kind = "ok"
              /\ ManifestName(calls[j].agent) = agent_execution_order[j]
              /\ calls[j].agent = dict_get(agents, agent_execution_order[j])
        /\ (pc = "Completed" => Len(calls) = Len(agent_execution_order))

\* three units loaded in one order and run in another
C2_Witness ==
    /\ pc = "Completed"
    /\ dict_keys(agents) = <<"agent_a", "agent_b", "project-analysis-agent">>
    /\ agent_execution_order = <<"project-analysis-agent", "agent_a", "agent_b">>
    /\ Len(calls) = 3

\* C3: when the configured order names a unit the directory did not load,
\* construction raises ValueError and no execute has been invoked; the
\* orchestrator is never constructed, so it never runs.
C3_UnknownUnitFatal ==
    (/\ pc # "NotConstructed"
     /\ \E j \in 1..Len(agent_execution_order) :
            agent_execution_order[j] \notin LoadableNames) =>
        /\ pc = "ConstructFailed"
        /\ outcome = [kind |-> "raise", value |-> <<"ValueError">>]
        /\ calls = <<>>

\* the order names a loaded unit and then an unknown one
C3_Witness ==
    /\ pc = "ConstructFailed"
    /\ agent_execution_order = <<"agent_a", "agent_dne">>
    /\ dict_has(agents, "agent_a")
    /\ calls = <<>>

C5_DataPassingChained ==
    (/\ agent_execution_order = <<"agent_a", "agent_b">>
     /\ initial_task = <<"start">>
     /\ \A j \in 1..Len(calls) : calls[j].kind = "wrap") =>
        /\ \A j \in 2..Len(calls) : calls[j].task = calls[j - 1].ret
        /\ pc = "Completed" =>
              outcome = [kind |-> "return", value |-> <<"agent_b", "agent_a", "start">>]

\* C6 as stated: a run over a non-empty order in which every unit succeeded
\* returns the return value of the last unit, whatever its name.
C6_ReturnsLastUnitValue ==
    (pc = "Completed" /\ calls # <<>>) =>
        outcome = [kind |-> "return", value |-> Last(calls).ret]

\* the value current_input holds after the invocations made so far: the
\* return value of the last unit not named project-analysis-agent
ChainedValue ==
    LET S == {j \in 1..Len(calls) :
                ~calls[j].raised /\ ManifestName(calls[j].agent) # "project-analysis-agent"}
    IN  IF S = {} THEN initial_task ELSE calls[Max(S)].ret

\* C6 amended: current_input is updated to the return value of every unit
\* except the one named project-analysis-agent, so a run in which every unit
\* succeeded returns the return value of the last unit of the order that is
\* not named project-analysis-agent, and the initial task if there is none.
C6_ReturnsLastChainedValue ==
    /\ pc \in {"Running", "Completed", "Aborted"} => current_input = ChainedValue
    /\ pc = "Completed" => outcome = [kind |-> "return", value |-> ChainedValue]

\* the last unit is project-analysis-agent and the run returns what the unit
\* before it returned
C6_Witness ==
    /\ pc = "Completed"
    /\ Len(calls) >= 2
    /\ ManifestName(Last(calls).agent) = "project-analysis-agent"
    /\ ManifestName(calls[Len(calls) - 1].agent) # "project-analysis-agent"
    /\ outcome.value = calls[Len(calls) - 1].ret
    /\ outcome.value # Last(calls).ret

\* C7: every unit is built with the orchestrator's own ContextManager, and a
\* unit that reads the key "seen" gets the value the latest earlier unit of
\* the run recorded under it.
C7_SharedContextStore ==
    /\ \A a \in DOMAIN agent_context : agent_context[a] = OrchestratorContext
    /\ \A j \in 1..Len(calls) :
          calls[j].kind = "read" =>
              LET W == {h \in 1..(j - 1) : calls[h].kind = "record"}
              IN  W # {} => calls[j].ret = Upper(calls[Max(W)].task)

\* one unit recorded the task and another unit read it back
C7_Witness ==
    /\ Len(calls) >= 2
    /\ calls[1].kind = "record"
    /\ calls[2].kind = "read"
    /\ calls[1].agent # calls[2].agent
    /\ calls[2].ret = <<"START">>

\* C19: with an empty (or absent) configured order, construction does not
\* raise, the resolved order holds every loaded unit exactly once (as many
\* entries as loaded units), no unit is invoked twice in a run, and a run
\* that completes has invoked each loaded unit exactly once.
C19_EmptyOrderRunsAllLoaded ==
    (agent_execution_order = <<>> /\ pc # "NotConstructed") =>
        /\ pc # "ConstructFailed"
        /\ Len(execution_order) = Cardinality(LoadableNames)
        /\ Len(execution_order) = Len(agents)
        /\ \A n \in LoadableNames :
              Cardinality({j \in 1..Len(execution_order) :
                              execution_order[j] = dict_get(agents, n)}) = 1
        /\ \A n \in LoadableNames :
              Cardinality({j \in 1..Len(calls) :
                              calls[j].agent = dict_get(agents, n)}) <= 1
        /\ pc = "Completed" =>
              /\ Len(calls) = Len(agents)
              /\ \A n \in LoadableNames :
                    Cardinality({j \in 1..Len(calls) :
                                    calls[j].agent = dict_get(agents, n)}) = 1

\* three units loaded, no configured order, a completed run of three calls
C19_Witness ==
    /\ agent_execution_order = <<>>
    /\ pc = "Completed"
    /\ Len(agents) = 3
    /\ Len(calls) = 3

\* C23: every run_sequence call starts with an empty context store: what a
\* unit recorded in one run is not seen by a unit of a later run, so a unit
\* that reads "seen" before any unit of its own run recorded it reads nothing.
C23_ContextFreshPerRun ==
    /\ (pc = "Running" /\ calls = <<>>) => stores[OrchestratorContext] = EmptyContext
    /\ \A j \in 1..Len(calls) :
          (calls[j].kind = "read"
           /\ \A h \in 1..(j - 1) : calls[h].kind # "record") =>
              calls[j].ret = <<>>

----------------------------------------------------------------------------
(* Discovery over a directory that also holds entries that fail to load *)

DiscoveryEntries ==
    DirEntries \cup {[kind |-> k, name |-> "agent_b"] : k \in FailingKinds}
               \cup {[kind |-> "file", name |-> "agent_a"]}

InitDiscovery ==
    /\ listing \in BSeq(DiscoveryEntries, MaxDirs)
    /\ agent_execution_order = <<>>
    /\ pc = "NotConstructed"
    /\ agents = <<>>
    /\ execution_order = <<>>
    /\ agent_context = <<>>
    /\ stores = [s \in 0..MaxDirs |-> EmptyContext]
    /\ initial_task = <<>>
    /\ current_input = <<>>
    /\ calls = <<>>
    /\ outcome = NoOutcome
    /\ log = <<>>
    /\ InitContextIdle
    /\ InitConfigIdle

NextDiscovery == AgentOrchestrator_init

SpecDiscovery == InitDiscovery /\ [][NextDiscovery]_vars

\* C20: an entry whose manifest is unparsable or lacks a field, whose module
\* raises while loading, whose class is missing or is not a BaseAgent
\* subclass is not in the registry; construction returns; and the registry
\* holds exactly the names of the valid entries, each with an instance built
\* from a valid entry of that name, wherever the failing entries sit in the
\* listing.  Checked under SpecDiscovery.
C20_DiscoveryFailuresNonFatal ==
    pc # "NotConstructed" =>
        /\ pc = "Constructed"
        /\ outcome.kind = "return"
        /\ {agents[j].name : j \in 1..Len(agents)} = LoadableNames
        /\ \A j \in 1..Len(agents) :
              /\ listing[agents[j].agent].kind = "ok"
              /\ ManifestName(agents[j].agent) = agents[j].name
        /\ \A h \in 1..Len(listing) :
              listing[h].kind \in FailingKinds =>
                  \A j \in 1..Len(agents) : agents[j].agent # h

\* a valid unit loaded from between two entries that failed
C20_Witness ==
    /\ pc = "Constructed"
    /\ Len(listing) = 3
    /\ listing[1].kind = "import_error"
    /\ listing[2] = [kind |-> "ok", name |-> "agent_a"]
    /\ listing[3].kind = "not_subclass"
    /\ dict_keys(agents) = <<"agent_a">>

----------------------------------------------------------------------------
(* A ContextManager used on its own, as core/test_context_manager.py does *)

InitContext ==
    /\ listing = <<>>
    /\ agent_execution_order = <<>>
    /\ pc = "NotConstructed"
    /\ agents = <<>>
    /\ execution_order = <<>>
    /\ agent_context = <<>>
    /\ stores = [s \in 0..MaxDirs |-> EmptyContext]
    /\ initial_task = <<>>
    /\ current_input = <<>>
    /\ calls = <<>>
    /\ outcome = NoOutcome
    /\ log = <<>>
    /\ context = EmptyContext
    /\ call = NoCall
    /\ held = NoHeld
    /\ InitConfigIdle

NextContext ==
    \/ \E key \in Keys, default \in Defaults : ContextManager_get(key, default)
    \/ \E key \in Keys, value \in Values : ContextManager_set(key, value)
    \/ \E key \in Keys, value \in Values : ContextManager_add(key, value)
    \/ \E key \in Keys : ContextManager_get_history(key, FALSE)
    \/ \E data \in Mappings : ContextManager_update(data)
    \/ ContextManager_clear
    \/ ContextManager_keys
    \/ ContextManager_items
    \/ \E key \in Keys : ContextManager_contains(key)
    \/ ContextManager_len

SpecContext == InitContext /\ [][NextContext]_vars

----------------------------------------------------------------------------
(* Context store claims, checked under SpecContext *)

\* C8: after add(k, v) the history of k is its history before the call
\* followed by v (<<v>> if k was absent), get(k) returns v, and every other
\* key is present or absent as before, with the same history.
C8_AddAppends ==
    [][call'.op = "add" =>
        LET k == call'.key
            v == call'.value
        IN  /\ ctx_get_history(context', k) = Append(ctx_get_history(context, k), v)
            /\ ctx_get(context', k, None) = v
            /\ \A k2 \in Keys \ {k} :
                  /\ ctx_contains(context', k2) = ctx_contains(context, k2)
                  /\ ctx_get_history(context', k2) = ctx_get_history(context, k2)]_vars

\* an add on a key that already held values, next to another key that is present
C8_Witness ==
    /\ call.op = "add"
    /\ call.had >= 1
    /\ Len(ctx_get_history(context, call.key)) = call.had + 1
    /\ DOMAIN context = Keys

\* C9: after set(k, v) the history of k is exactly <<v>> whatever it was
\* before and get(k) returns v; an add(k, w) that follows a set(k, v) leaves
\* the history <<v, w>>.
C9_SetReplacesHistory ==
    [][/\ call'.op = "set" =>
            /\ ctx_get_history(context', call'.key) = <<call'.value>>
            /\ ctx_get(context', call'.key, None) = call'.value
       /\ (call.op = "set" /\ call'.op = "add" /\ call'.key = call.key) =>
            ctx_get_history(context', call.key) = <<call.value, call'.value>>]_vars

\* a set on a key that held two or more values
C9_Witness ==
    /\ call.op = "set"
    /\ call.had >= 2
    /\ ctx_get_history(context, call.key) = <<call.value>>

\* C10: get(k, D) returns the last element of k's history when k is present
\* and D (None when no default is given) when k is absent, and leaves the
\* store as it was: it creates no key.
C10_GetLatestOrDefault ==
    [][call'.op = "get" =>
        /\ context' = context
        /\ call'.ret = IF call'.key \in DOMAIN context
                       THEN Last(context[call'.key])
                       ELSE call'.value]_vars

\* a get on a key whose history holds two different values
C10_Witness ==
    /\ call.op = "get"
    /\ call.key \in DOMAIN context
    /\ Len(context[call.key]) >= 2
    /\ context[call.key][1] # Last(context[call.key])
    /\ call.ret = Last(context[call.key])

\* C11: update(mapping) leaves every key of the mapping with the one-element
\* history <<value>>, as set(key, value) would, whatever the key held before,
\* and leaves every other key present or absent as before, with its history.
C11_UpdateIsBulkSet ==
    [][call'.op = "update" =>
        LET data == call'.value
        IN  /\ \A k \in DOMAIN data :
                  /\ ctx_contains(context', k)
                  /\ ctx_get_history(context', k) = <<data[k]>>
                  /\ ctx_get_history(context', k) =
                        ctx_get_history(ctx_set(context, k, data[k]), k)
            /\ \A k \in Keys \ DOMAIN data :
                  /\ ctx_contains(context', k) = ctx_contains(context, k)
                  /\ ctx_get_history(context', k) = ctx_get_history(context, k)]_vars

\* an update of one key that held two or more values, the other key keeping
\* its longer history
C11_Witness ==
    /\ call.op = "update"
    /\ call.had >= 2
    /\ \E k \in Keys :
          /\ DOMAIN call.value = {k}
          /\ ctx_get_history(context, k) = <<call.value[k]>>
          /\ \E k2 \in Keys \ {k} : Len(ctx_get_history(context, k2)) >= 2

\* C28: whatever calls were made on a fresh store, every key present has a
\* history of at least one value, len(store) is the number of keys present,
\* and after clear() no key is present.  Checked under SpecContext.
C28_HistoryInvariant ==
    /\ \A k \in DOMAIN context : Len(context[k]) >= 1
    /\ call.op = "len" => call.ret = Cardinality(DOMAIN context)
    /\ call.op = "clear" => DOMAIN context = {}

\* len() answered 2 on a store of two keys holding three values
C28_Witness ==
    /\ call.op = "len"
    /\ call.ret = 2
    /\ DOMAIN context = Keys
    /\ Len(context["key1"]) = 2
    /\ Len(context["key2"]) = 1

----------------------------------------------------------------------------
(* A ContextManager whose caller keeps the list get_history returned *)

NextHistory ==
    \/ \E key \in Keys, default \in Defaults : ContextManager_get(key, default)
    \/ \E key \in Keys, value \in Values : ContextManager_set(key, value)
    \/ \E key \in Keys, value \in Values : ContextManager_add(key, value)
    \/ \E key \in Keys, keep \in BOOLEAN : ContextManager_get_history(key, keep)
    \/ ContextManager_clear
    \/ \E value \in Values : caller_append(value)
    \/ caller_clear

SpecHistory == InitContext /\ [][NextHistory]_vars

\* C29: the list get_history(k) returned is a snapshot: a later add or set
\* on the store leaves it as it was, appending to it or emptying it leaves
\* the store as it was (so get and get_history answer as before), and for an
\* absent key get_history returns an empty list without creating the key.
\* Checked under SpecHistory.
C29_ReturnedHistoryIsolated ==
    [][/\ call'.op \in {"add", "set"} => held'.value = held.value
       /\ call'.op \in {"caller_append", "caller_clear"} =>
             /\ context' = context
             /\ \A k \in Keys, D \in Defaults :
                   /\ ctx_get(context', k, D) = ctx_get(context, k, D)
                   /\ ctx_get_history(context', k) = ctx_get_history(context, k)
       /\ (call'.op = "get_history" /\ call'.key \notin DOMAIN context) =>
             /\ call'.ret = <<>>
             /\ context' = context]_vars

----------------------------------------------------------------------------
(* A ConfigManager used on its own, as core/test_config_manager.py does *)

InitOrchestratorIdle ==
    /\ listing = <<>>
    /\ agent_execution_order = <<>>
    /\ pc = "NotConstructed"
    /\ agents = <<>>
    /\ execution_order = <<>>
    /\ agent_context = <<>>
    /\ stores = [s \in 0..MaxDirs |-> EmptyContext]
    /\ initial_task = <<>>
    /\ current_input = <<>>
    /\ calls = <<>>
    /\ outcome = NoOutcome
    /\ log = <<>>

InitConfig ==
    /\ InitOrchestratorIdle
    /\ InitContextIdle
    /\ InitConfigIdle

NextConfig ==
    \/ \E file \in BaseFiles : ConfigManager_load_config(file)
    \/ \E key \in Paths, default \in ConfigDefaults : ConfigManager_get(key, default)
    \/ \E key \in SetPaths, value \in SetValues : ConfigManager_set(key, value)
    \/ ConfigManager_get_config
    \/ \E file \in OverrideFiles : ConfigManager_get_merged_config(file)
    \/ \E agent_name \in AgentNames, file \in OverrideFiles :
          ConfigManager_get_agent_config(agent_name, file)
    \/ \E base \in BaseDocs, override \in OverrideDocs :
          ConfigManager_deep_merge(base, override)
    \/ \E key \in SetPaths, value \in SetValues : mutate_returned(key, value)

SpecConfig == InitConfig /\ [][NextConfig]_vars

\* _deep_merge as a function: the two trees are drawn, then merged
InitMerge ==
    /\ InitOrchestratorIdle
    /\ InitContextIdle
    /\ config = EmptyDict
    /\ view = NoView
    /\ llm = NoLLMCall
    /\ runner = NoRunner
    /\ \E base \in TopDicts, override \in TopDicts :
          cfg_call = [NoCfgCall EXCEPT !.base = base, !.arg = override]

NextMerge == ConfigManager_deep_merge(cfg_call.base, cfg_call.arg)

SpecMerge == InitMerge /\ [][NextMerge]_vars

----------------------------------------------------------------------------
(* Configuration claims *)

\* what C12 says of a result R for base B and override O
RECURSIVE IsMergeOf(_, _, _)
IsMergeOf(R, B, O) ==
    /\ IsDict(R)
    /\ DOMAIN R.v = DOMAIN B.v \cup DOMAIN O.v
    /\ \A k \in DOMAIN R.v :
          IF k \notin DOMAIN O.v
          THEN R.v[k] = B.v[k]
          ELSE IF k \in DOMAIN B.v /\ IsDict(B.v[k]) /\ IsDict(O.v[k])
          THEN IsMergeOf(R.v[k], B.v[k], O.v[k])
          ELSE R.v[k] = O.v[k]

\* C12: _deep_merge(B, O) has the keys of B and of O; a key of B that O lacks
\* keeps B's value, a key whose values in B and O are both mappings holds
\* their recursive merge, and any other key of O holds O's value wholesale
\* (a sequence replaces a sequence, it is never merged element-wise).
\* Checked under SpecMerge.
C12_DeepMergeCorrect ==
    cfg_call.op = "deep_merge" => IsMergeOf(cfg_call.ret, cfg_call.base, cfg_call.arg)

\* a merge with a key kept from B, a mapping merged two levels down, a
\* non-mapping put over a mapping and a sequence replacing a longer one
C12_Witness ==
    /\ cfg_call.op = "deep_merge"
    /\ cfg_call.base =
         Dict([llm_settings |-> Dict([default_provider |-> Str("gemini"),
                                      options |-> Dict([depth |-> Str("gemini")])]),
               templates |-> List(<<"bug", "feature">>)])
    /\ cfg_call.arg =
         Dict([llm_settings |-> Dict([options |-> Str("gemini")]),
               templates |-> List(<<"custom">>)])
    /\ cfg_call.ret =
         Dict([llm_settings |-> Dict([default_provider |-> Str("gemini"),
                                      options |-> Str("gemini")]),
               templates |-> List(<<"custom">>)])

MergingCalls == {"get_merged_config", "get_agent_config"}

\* C13: _deep_merge(B, O) leaves B as it was; get_merged_config and
\* get_agent_config leave the store's tree as it was, so get(p) returns for
\* every path what it returned before; and an assignment the caller makes
\* into the merged tree it was handed does not change the store's tree.
\* Checked under SpecConfig.
C13_MergeDoesNotMutate ==
    [][/\ cfg_call'.op = "deep_merge" => cfg_call'.base_after = cfg_call'.base
       /\ cfg_call'.op \in MergingCalls =>
             /\ config' = config
             /\ \A p \in Paths, D \in ConfigDefaults :
                   get_from_dict(config', p, D) = get_from_dict(config, p, D)
       /\ (cfg_call.op \in MergingCalls /\ cfg_call'.op = "mutate_returned") =>
             /\ config' = config
             /\ \A p \in Paths, D \in ConfigDefaults :
                   get_from_dict(config', p, D) = get_from_dict(config, p, D)]_vars

\* the caller changed a merged tree made from a non-empty store and an
\* override document, and the store still holds the tree it held
C13_Witness ==
    /\ cfg_call.op = "mutate_returned"
    /\ cfg_call.file = "json"
    /\ cfg_call.base # EmptyDict
    /\ cfg_call.arg # EmptyDict
    /\ config = cfg_call.base
    /\ cfg_call.ret # config

\* C14: after set(p, v), get(p) returns v, whatever the store held: the
\* intermediate segments of p may have been missing, and a proper prefix of p
\* may have held a value that is not a mapping.  Checked under SpecConfig.
C14_SetGetRoundTrip ==
    cfg_call.op = "set" =>
        /\ cfg_call.err = ""
        /\ get_from_dict(config, cfg_call.path, NoneValue) = cfg_call.arg

\* the segments keys do not resolve from value: one of them is missing, or
\* the value reached before it is not a mapping
RECURSIVE Unresolved(_, _)
Unresolved(value, keys) ==
    /\ keys # <<>>
    /\ \/ ~IsDict(value)
       \/ keys[1] \notin DOMAIN value.v
       \/ Unresolved(value.v[keys[1]], Tail(keys))

\* C15: get(p, D) on a path that does not resolve returns D and does not
\* raise, whatever the store holds; D is None when no default is given.
\* Checked under SpecConfig.
C15_MissingKeyReturnsDefault ==
    (cfg_call.op = "get" /\ Unresolved(config, split(cfg_call.path))) =>
        /\ cfg_call.err = ""
        /\ cfg_call.ret = cfg_call.arg

\* a get with a default through a value that is a list, not a mapping
C15_Witness ==
    /\ cfg_call.op = "get"
    /\ cfg_call.path = <<"templates", ".", "directories">>
    /\ "templates" \in DOMAIN config.v
    /\ config.v["templates"].t = "list"
    /\ cfg_call.arg = Str("default")
    /\ cfg_call.ret = Str("default")

C17_LoadErrorsKeepStore ==
    /\ (cfg_call.op = "load_config" /\ cfg_call.file = "malformed") =>
          /\ cfg_call.err = "ValueError"
          /\ config = cfg_call.base
    /\ (cfg_call.op = "load_config" /\ cfg_call.file = "json"
        /\ ~schema_valid(cfg_call.arg)) =>
          /\ cfg_call.err = "ConfigValidationError"
          /\ config = cfg_call.base

\* a schema-invalid document rejected by a store that held a tree
C17_Witness ==
    /\ cfg_call.op = "load_config"
    /\ cfg_call.file = "json"
    /\ ~schema_valid(cfg_call.arg)
    /\ cfg_call.err = "ConfigValidationError"
    /\ config # EmptyDict
    /\ config = cfg_call.base

\* C18: get_merged_config validates the merged tree: when the override makes
\* it schema-invalid the call raises ConfigValidationError instead of
\* returning the merged tree.  Stated for a store that was loaded with a
\* valid tree, as in test_get_merged_config_invalid_merged_result.
\* Checked under SpecConfig.
C18_MergedConfigValidated ==
    (/\ cfg_call.op = "get_merged_config"
     /\ cfg_call.file = "json"
     /\ cfg_call.base # EmptyDict
     /\ schema_valid(cfg_call.base)
     /\ ~schema_valid(deep_merge(cfg_call.base, cfg_call.arg))) =>
        cfg_call.err = "ConfigValidationError"

----------------------------------------------------------------------------
(* The orchestrator built on a ConfigManager whose tree names the order *)

OrderLists == {List(<<"agent_a", "agent_b">>), List(<<"agent_b", "agent_a">>),
               List(<<"agent_b">>)}
OrderConfigs == DictsOver([execution_order |-> OrderLists,
                           agent_execution_order |-> OrderLists])

\* orchestrator.py:60: agent_order_names is what the ConfigManager returns
InitOrder ==
    /\ config \in OrderConfigs
    /\ cfg_call = NoCfgCall
    /\ view = NoView
    /\ llm = NoLLMCall
    /\ runner = NoRunner
    /\ listing \in BSeq(DirEntries, MaxDirs)
    /\ agent_execution_order = get_agent_execution_order(config).l
    /\ pc = "NotConstructed"
    /\ agents = <<>>
    /\ execution_order = <<>>
    /\ agent_context = <<>>
    /\ stores = [s \in 0..MaxDirs |-> EmptyContext]
    /\ initial_task = <<>>
    /\ current_input = <<>>
    /\ calls = <<>>
    /\ outcome = NoOutcome
    /\ log = <<>>
    /\ InitContextIdle

NextOrder ==
    \/ ConfigManager_get_agent_execution_order
    \/ AgentOrchestrator_init
    \/ \E task \in Tasks : AgentOrchestrator_run_sequence(task)
    \/ \E behaviour \in UnitBehaviours : run_sequence_iteration(behaviour)

SpecOrder == InitOrder /\ [][NextOrder]_vars

\* the configured order under top-level key k is followed: the accessor
\* returns the list, a constructed orchestrator has resolved the units the
\* list names, entry by entry, and the units invoked are those, in that order
OrderOfKeyFollowed(k) ==
    (k \in DOMAIN config.v /\ config.v[k].l # <<>>) =>
        LET names == config.v[k].l
        IN  /\ cfg_call.op = "get_agent_execution_order" => cfg_call.ret = config.v[k]
            /\ pc \in {"Constructed", "Running", "Completed", "Aborted"} =>
                  /\ Len(execution_order) = Len(names)
                  /\ \A j \in 1..Len(names) :
                        execution_order[j] = dict_get(agents, names[j])
                  /\ Len(calls) <= Len(names)
                  /\ \A j \in 1..Len(calls) : calls[j].name = names[j]
                  /\ pc = "Completed" => Len(calls) = Len(names)

\* C24 as stated: the order is the list under the key execution_order.
\* Checked under SpecOrder.
C24_OrderReadFromExecutionOrder == OrderOfKeyFollowed("execution_order")

\* C24 amended: the order is the list under the key agent_execution_order.
C24_OrderReadFromAgentExecutionOrder == OrderOfKeyFollowed("agent_execution_order")

\* units loaded as agent_a, agent_b and run as agent_b, agent_a, the order of
\* agent_execution_order, while execution_order names another order
C24_Witness ==
    /\ config = Dict([execution_order |-> List(<<"agent_b">>),
                      agent_execution_order |-> List(<<"agent_b", "agent_a">>)])
    /\ dict_keys(agents) = <<"agent_a", "agent_b">>
    /\ pc = "Completed"
    /\ Len(calls) = 2
    /\ calls[1].name = "agent_b"
    /\ calls[2].name = "agent_a"

\* the listing positions of the valid entries declaring name n
EntriesNamed(n) == {h \in 1..Len(listing) : listing[h] = [kind |-> "ok", name |-> n]}

Constructed == {"Constructed", "Running", "Completed", "Aborted"}

\* C27: when several valid entries declare the same name, the registry holds
\* one entry for the name, bound to the instance of the last of them in
\* listing order; the instances of the earlier ones are not in the registry,
\* not in the resolved order and never invoked; and the collision raises
\* nothing: construction succeeds whenever every configured name is loadable.
\* Checked under SpecOrder.
C27_LastLoadedWins ==
    pc # "NotConstructed" =>
        /\ \A n \in LoadableNames :
              /\ Cardinality({j \in 1..Len(agents) : agents[j].name = n}) = 1
              /\ dict_get(agents, n) = Max(EntriesNamed(n))
              /\ \A h \in EntriesNamed(n) \ {Max(EntriesNamed(n))} :
                    /\ \A j \in 1..Len(agents) : agents[j].agent # h
                    /\ \A j \in 1..Len(execution_order) : execution_order[j] # h
                    /\ \A j \in 1..Len(calls) : calls[j].agent # h
        /\ (\A j \in 1..Len(agent_execution_order) :
               agent_execution_order[j] \in LoadableNames) => pc \in Constructed

\* agent_a declared by the first and the third entry: the third one ran
C27_Witness ==
    /\ listing = <<[kind |-> "ok", name |-> "agent_a"], [kind |-> "ok", name |-> "agent_b"],
                   [kind |-> "ok", name |-> "agent_a"]>>
    /\ pc = "Completed"
    /\ dict_keys(agents) = <<"agent_a", "agent_b">>
    /\ dict_get(agents, "agent_a") = 3
    /\ \E j \in 1..Len(calls) : calls[j].agent = 3

\* C30: once construction has succeeded every element of execution_order is
\* a value of the registry, so the lookup of line 88 never raises; and
\* run_sequence changes neither the registry nor execution_order.
\* Checked under SpecOrder.
C30_OrderHoldsLoadedUnits ==
    [][/\ pc' \in Constructed =>
             /\ \A j \in 1..Len(execution_order') :
                   \E h \in 1..Len(agents') : agents'[h].agent = execution_order'[j]
             /\ outcome' # [kind |-> "raise", value |-> <<"ValueError">>]
       /\ pc \in Constructed =>
             /\ agents' = agents
             /\ execution_order' = execution_order]_vars

\* a run over a directory with a skipped entry and a replaced unit
C30_Witness ==
    /\ pc = "Completed"
    /\ Len(listing) = 3
    /\ listing[1].kind = "no_manifest"
    /\ listing[2] = listing[3]
    /\ Len(calls) = 1
    /\ calls[1].agent = 3

----------------------------------------------------------------------------
(* An AgentConfigManager on a ConfigManager that is reloaded and set *)

ViewPaths == {<<"llm_settings", ".", "default_provider">>, <<"templates">>,
              <<"no", ".", "such", ".", "path">>}
ViewSetPaths == {<<"llm_settings", ".", "default_provider">>, <<"templates">>}
ViewSetValues == {Str("openai")}

NextView ==
    \/ \E file \in BaseFiles : ConfigManager_load_config(file)
    \/ \E key \in ViewSetPaths, value \in ViewSetValues : ConfigManager_set(key, value)
    \/ \E agent_name \in AgentNames : AgentConfigManager_init(agent_name)
    \/ \E key \in ViewPaths, default \in ConfigDefaults, file \in OverrideFiles :
          AgentConfigManager_get(key, default, file)
    \/ \E file \in OverrideFiles : AgentConfigManager_get_config(file)
    \/ \E key \in ViewSetPaths, value \in ViewSetValues : AgentConfigManager_set(key, value)

SpecView == InitConfig /\ [][NextView]_vars

ViewReads == {"view_get", "view_get_config"}

\* C21: constructing the view computes no merge; the first get or get_config
\* that returns computes, once, the store's tree deep-merged with the unit's
\* override file (the store's tree when the file is absent); from then on
\* no step changes the cached tree or computes again, whatever is done to
\* the store (set through the store or the view, reload), and get and
\* get_config answer from the cached tree.  Checked under SpecView.
C21_ViewLazyAndCached ==
    [][/\ cfg_call'.op = "view_init" =>
             (view'.cache = NoneValue /\ view'.computed = 0)
       /\ (cfg_call'.op \in ViewReads /\ view.cache = NoneValue /\ cfg_call'.err = "") =>
             /\ view'.computed = view.computed + 1
             /\ \E file \in OverrideFiles :
                   /\ file.kind = cfg_call'.file
                   /\ IF file.kind = "absent" THEN view'.cache = config
                      ELSE IsMergeOf(view'.cache, config, file.doc)
       /\ view.cache # NoneValue =>
             /\ view'.cache = view.cache
             /\ view'.computed = view.computed
             /\ cfg_call'.op = "view_get" =>
                   cfg_call'.ret = get_from_dict(view.cache, cfg_call'.path, cfg_call'.arg)
             /\ cfg_call'.op = "view_get_config" => cfg_call'.ret = view.cache]_vars

\* the view still answers gemini after the store's provider was set to openai
C21_Witness ==
    /\ cfg_call.op = "view_get"
    /\ cfg_call.path = <<"llm_settings", ".", "default_provider">>
    /\ cfg_call.ret = Str("gemini")
    /\ get_from_dict(config, cfg_call.path, NoneValue) = Str("openai")
    /\ view.computed = 1

----------------------------------------------------------------------------
(* _resolve_configuration over every combination of tiers *)

\* the sections each tier may hold; a tier's values differ from every other's
SectionsOver(values) == {[k \in K |-> values[k]] : K \in SUBSET DOMAIN values}
GlobalValues == [default_provider |-> Str("claude"), model |-> Str("gemini-pro"),
                 temperature |-> Num("0.5"), max_tokens |-> Num("4096")]
UnitValues == [provider |-> Str("openai"), model |-> Str("claude-3-5-sonnet-20241022"),
               temperature |-> Num("0.3"), max_tokens |-> Num("2048")]
KeywordValues == [model |-> Str("gpt-4"), max_tokens |-> Num("1024")]
ExplicitValues == [provider |-> Str("mistral"), temperature |-> Num("0.1")]

LLMBaseConfigs ==
    {EmptyDict} \cup {Dict([llm_settings |-> Dict(f)]) : f \in SectionsOver(GlobalValues)}
LLMUnitFiles ==
    {AbsentFile, MalformedFile, JsonFile(EmptyDict), JsonFile(Dict([llm |-> Str("gemini")]))}
        \cup {JsonFile(Dict([llm |-> Dict(f)])) : f \in SectionsOver(UnitValues)}

InitLLM ==
    /\ InitOrchestratorIdle
    /\ InitContextIdle
    /\ cfg_call = NoCfgCall
    /\ view = NoView
    /\ runner = NoRunner
    /\ config \in LLMBaseConfigs
    /\ \E agent_name \in {None, "agent_a"}, file \in LLMUnitFiles,
          provider \in {NoneValue, ExplicitValues["provider"]},
          temperature \in {NoneValue, ExplicitValues["temperature"]},
          kwargs \in SectionsOver(KeywordValues) :
          llm = [op |-> "pending", agent_name |-> agent_name, file |-> file,
                 provider |-> provider, temperature |-> temperature,
                 kwargs |-> kwargs, resolved |-> <<>>]

NextLLM == LLMManager_resolve_configuration

SpecLLM == InitLLM /\ [][NextLLM]_vars

\* what each tier offers for setting k in the call recorded in llm, as a
\* set: empty when the tier does not supply the setting
ExplicitOffer(k) ==
    (IF k = "provider" /\ llm.provider # NoneValue THEN {llm.provider} ELSE {})
    \cup (IF k = "temperature" /\ llm.temperature # NoneValue THEN {llm.temperature} ELSE {})
    \cup (IF k \in DOMAIN llm.kwargs THEN {llm.kwargs[k]} ELSE {})
UnitOffer(k) ==
    IF /\ llm.agent_name # None
       /\ llm.file.kind = "json"
       /\ "llm" \in DOMAIN llm.file.doc.v
       /\ IsDict(llm.file.doc.v["llm"])
       /\ k \in DOMAIN llm.file.doc.v["llm"].v
    THEN {llm.file.doc.v["llm"].v[k]} ELSE {}
GlobalOffer(k) ==
    IF /\ "llm_settings" \in DOMAIN config.v
       /\ global_key(k) \in DOMAIN config.v["llm_settings"].v
    THEN {config.v["llm_settings"].v[global_key(k)]} ELSE {}
HighestOffer(k) ==
    IF ExplicitOffer(k) # {} THEN ExplicitOffer(k)
    ELSE IF UnitOffer(k) # {} THEN UnitOffer(k)
    ELSE IF GlobalOffer(k) # {} THEN GlobalOffer(k)
    ELSE {hardcoded_defaults[k]}

\* C22: each of provider, model, temperature and max_tokens resolves to the
\* value of the highest tier that supplies it, explicit argument over the
\* unit's override over the global settings over the hardcoded default; a
\* tier that does not supply it hides nothing, and an override that does not
\* load leaves the global or default value.  Checked under SpecLLM.
C22_FourTierPrecedence ==
    llm.op = "resolved" =>
        \A k \in LLMSettings :
            /\ k \in DOMAIN llm.resolved
            /\ HighestOffer(k) = {llm.resolved[k]}

\* one call in which each tier wins one setting
C22_Witness ==
    /\ llm.op = "resolved"
    /\ llm.resolved["provider"] = ExplicitValues["provider"]
    /\ UnitOffer("provider") # {}
    /\ llm.resolved["model"] = UnitValues["model"]
    /\ GlobalOffer("model") # {}
    /\ llm.resolved["temperature"] = GlobalValues["temperature"]
    /\ llm.resolved["max_tokens"] = hardcoded_defaults["max_tokens"]

----------------------------------------------------------------------------
(* The log of a run *)

\* the positions of log holding an entry of kind msg
LogAt(msg) == {j \in 1..Len(log) : log[j].msg = msg}
\* the invocation of the i-th unit of the run
InvocationOf(i) == {j \in LogAt("execute") : log[j].i = i}
\* the positions after the i-th invocation and before the next one
AfterInvocation(i) ==
    {m \in 1..Len(log) : /\ \A j \in InvocationOf(i) : m > j
                         /\ \A j \in InvocationOf(i + 1) : m < j}

\* C25: in a run over N units, each unit executed has its info log
\* "Executing agent i/N: name" before its execute is invoked and exactly one
\* outcome log after it, "completed" at info if it returned and "failed" at
\* error if it raised; a run in which a unit raised has exactly one error
\* log and no "sequence completed" log; a run in which all N units returned
\* has N completion logs and then the "sequence completed" log, once.
\* Checked under SpecOrder.
C25_LogProtocol ==
    LET N == Len(execution_order)
    IN  /\ \A i \in 1..Len(calls) :
              /\ Cardinality(InvocationOf(i)) = 1
              /\ \E e \in LogAt("executing") :
                    /\ log[e] = LogEntry("info", "executing", i, N, calls[i].name)
                    /\ \A j \in InvocationOf(i) : e < j
                    /\ \A j \in InvocationOf(i - 1) : j < e
              /\ Cardinality({m \in AfterInvocation(i) :
                                 log[m].msg \in {"completed", "failed"}}) = 1
              /\ \E m \in AfterInvocation(i) :
                    log[m] = IF calls[i].raised
                             THEN LogEntry("error", "failed", i, N, calls[i].name)
                             ELSE LogEntry("info", "completed", i, N, calls[i].name)
        /\ Cardinality(LogAt("execute")) = Len(calls)
        /\ (\E i \in 1..Len(calls) : calls[i].raised) =>
              /\ Cardinality({j \in 1..Len(log) : log[j].level = "error"}) = 1
              /\ LogAt("sequence completed") = {}
        /\ (pc = "Completed" /\ \A i \in 1..Len(calls) : ~calls[i].raised) =>
              /\ Len(calls) = N
              /\ Cardinality(LogAt("completed")) = N
              /\ LogAt("sequence completed") = {Len(log)}
        /\ pc = "Running" => LogAt("sequence completed") = {}

\* a run of two units whose second raised
C25_Witness ==
    /\ pc = "Aborted"
    /\ Len(calls) = 2
    /\ ~calls[1].raised
    /\ calls[2].raised
    /\ log[Len(log)] = LogEntry("error", "failed", 2, 2, calls[2].name)

----------------------------------------------------------------------------
(* The process: main builds a DevIssueRunner and calls run *)

RunnerFiles ==
    BaseFiles \cup {JsonFile(Dict([agent_execution_order |-> o])) : o \in OrderLists}

InitRunner ==
    /\ listing \in BSeq(DirEntries, MaxDirs)
    /\ agent_execution_order = <<>>
    /\ pc = "NotConstructed"
    /\ agents = <<>>
    /\ execution_order = <<>>
    /\ agent_context = <<>>
    /\ stores = [s \in 0..MaxDirs |-> EmptyContext]
    /\ initial_task = <<>>
    /\ current_input = <<>>
    /\ calls = <<>>
    /\ outcome = NoOutcome
    /\ log = <<>>
    /\ InitContextIdle
    /\ InitConfigIdle

NextRunner ==
    \/ \E file \in RunnerFiles : DevIssueRunner_init(file)
    \/ DevIssueRunner_ensure_orchestrator
    \/ \E task \in Tasks : DevIssueRunner_run(task)
    \/ \E behaviour \in UnitBehaviours : run_sequence_iteration(behaviour)

SpecRunner == InitRunner /\ [][NextRunner]_vars

\* C26: when loading the base configuration at process start failed
\* (malformed JSON or schema violation), no orchestrator is built and no
\* unit's execute is invoked in the process.  Checked under SpecRunner.
C26_ConfigErrorsStopTheRun ==
    runner.load_err # "" => (pc = "NotConstructed" /\ calls = <<>>)

====
